---------------------------- MODULE Spec2Model ----------------------------
(***************************************************************************)
(* Inventory, returns and store-credit (discount code) management.         *)
(*                                                                         *)
(* The model follows server/storage.ts (MemStorage), server/routes.ts (the *)
(* HTTP handlers) and the return dialog of the client (calculateTotals,    *)
(* updateQuantity, onSubmit).                                              *)
(*                                                                         *)
(* Conventions                                                             *)
(*  - Money.  The code keeps amounts as decimal strings and computes on    *)
(*    them with parseFloat / toFixed(2).  An amount is modelled by its     *)
(*    value in thousandths of a currency unit (mills): "1.50" is 1500,     *)
(*    "0.004" is 4.  toFixed2 rounds to a whole number of cents, so an     *)
(*    amount finer than a cent does not survive formatting.                *)
(*  - Optional values (null / undefined / a string that is no number) are  *)
(*    sequences of length at most one: <<>> is the absent value and <<v>>  *)
(*    the present value v.                                                 *)
(*  - randomUUID(), Date.now() and Math.random() give fresh identifiers:   *)
(*    the model numbers products, returns and discount codes by the order  *)
(*    of their creation.                                                   *)
(*  - Requests that come one after another: MemStorage's async methods    *)
(*    never wait on I/O, so a handler is one step from its request to its  *)
(*    response.  The one real wait is the e-mail send of POST              *)
(*    /api/returns, which is a step of its own.                            *)
(*  - Requests in flight together (SpecSkuRace, SpecCreditRace): a handler *)
(*    is one step per stretch between two awaits, and the stretches of the *)
(*    handlers in flight alternate.                                        *)
(***************************************************************************)
EXTENDS Integers, Sequences, FiniteSets, TLC

(***************************************************************************)
(* Bounds of the model.                                                    *)
(***************************************************************************)
\* products ever created
MaxProducts == 2
\* returns ever created
MaxReturns == 2
\* largest quantity of one order line or one return item of a request
MaxQty == 2
\* months the clock may advance
MaxNow == 1
\* orders ever created
MaxOrders == 2
\* stock movements ever requested
MaxMovements == 1
\* largest stock a stock movement may leave
StockCap == 3
\* requests in flight together
MaxInFlight == 2
\* redemptions of one code that a client keeps count of
MaxRedemptions == 3

\* routes.ts: expiresAt.setMonth(expiresAt.getMonth() + 6)
ExpiryMonths == 6

(***************************************************************************)
(* Optional values.                                                        *)
(***************************************************************************)
None == <<>>

Some(v) == <<v>>

IsSome(o) == o # <<>>

\* JavaScript truthiness of an optional string: undefined, null and "" are falsy
TruthyString(o) == IsSome(o) /\ o[1] # ""

(***************************************************************************)
(* Number conversions.                                                     *)
(***************************************************************************)
\* parseFloat of a decimal string: the optional number it denotes; NaN is None
parseFloat(s) == s

isNaN(x) == x = None

\* Number.prototype.toFixed(2), on mills: the nearest whole cent.  The amounts
\* the model enumerates never lie half-way between two cents.
toFixed2(x) ==
    IF x >= 0 THEN ((x + 5) \div 10) * 10
              ELSE -(((-x) + 5) \div 10) * 10

\* parseInt of a non-negative decimal string: its integer part, in units
parseInt(x) == x \div 1000

Max(a, b) == IF a >= b THEN a ELSE b

Min(a, b) == IF a <= b THEN a ELSE b

(***************************************************************************)
(* Input domains of the requests.                                          *)
(***************************************************************************)
ProductIds == 1 .. MaxProducts

Skus == {"SKU-A", "SKU-B"}

\* catalogue and order-line prices: 1.50, 2.00, 3.00
Prices == {1500, 2000, 3000}

Emails == {None, Some(""), Some("ann@example.com")}

OrderIds == {"o1"}

\* the requests that may be in flight together
Requests == 1 .. MaxInFlight

\* a request that was not sent yet
Idle == [op |-> "idle", pc |-> "idle", arg |-> None, local |-> None, status |-> 0]

VARIABLES
    products,        \* MemStorage.products: id -> [sku, price, stockQuantity]
    productSeq,      \* products created so far (the next product id - 1)
    orders,          \* MemStorage.orders: id -> record
    orderItems,      \* MemStorage.orderItems, in insertion order
    orderSeq,        \* orders created so far
    creditDialog,    \* the client's use-credit dialog, None when closed
    stockMovements,  \* MemStorage.stockMovements, in insertion order
    returns,         \* MemStorage.returns, in insertion order (id = index)
    returnItems,     \* MemStorage.returnItems, in insertion order
    discountCodes,   \* MemStorage.discountCodes: id -> record
    codeSeq,         \* discount codes created so far
    now,             \* the clock, in months
    pendingEmail,    \* the POST /api/returns waiting for its e-mail send
    outbox,          \* the discount codes whose e-mail was sent
    emailResult,     \* how the last sendDiscountCode call ended
    dialog,          \* the client's return dialog, None when closed
    inflight,        \* the requests in flight together: per request, where its
                     \* handler stands and what it holds
    redeemed,        \* per discount code, the amounts of the redemptions the
                     \* client saw answered 200, in their order (TalliedUse)
    resp             \* the last handler step: its operation, status and body
                     \* (status 0: no response sent yet)

vars == <<products, productSeq, orders, orderItems, orderSeq, creditDialog,
          stockMovements, returns, returnItems,
          discountCodes, codeSeq, now, pendingEmail, outbox, emailResult,
          dialog, inflight, redeemed, resp>>

store == <<products, productSeq, orders, orderItems, orderSeq,
           stockMovements, returns, returnItems, discountCodes, codeSeq>>

\* the order store and the use-credit dialog
orderVars == <<orders, orderItems, orderSeq, creditDialog>>

\* the requests in flight together and the tally of the redemptions
requestVars == <<inflight, redeemed>>

\* body: the error message of a failure, else the payload
Response(op, status, body) ==
    [op |-> op, status |-> status, body |-> body]

Init ==
    /\ products = << >>
    /\ productSeq = 0
    /\ orders = << >>
    /\ orderItems = << >>
    /\ orderSeq = 0
    /\ creditDialog = None
    /\ stockMovements = << >>
    /\ returns = << >>
    /\ returnItems = << >>
    /\ discountCodes = << >>
    /\ codeSeq = 0
    /\ now = 0
    /\ pendingEmail = None
    /\ outbox = {}
    /\ emailResult = "none"
    /\ dialog = None
    /\ inflight = [r \in Requests |-> Idle]
    /\ redeemed = << >>
    /\ resp = Response("none", 0, None)


(***************************************************************************)
(* MemStorage: products.                                                   *)
(***************************************************************************)
getProduct(prods, id) ==
    IF id \in DOMAIN prods THEN Some(prods[id]) ELSE None

getProductBySKU(prods, sku) ==
    LET hits == {id \in DOMAIN prods : prods[id].sku = sku}
    IN  IF hits = {} THEN None ELSE Some(CHOOSE id \in hits : \A o \in hits : id <= o)

\* updateProduct: undefined (no change) when the product does not exist
updateProduct(prods, id, product) ==
    IF id \in DOMAIN prods THEN [prods EXCEPT ![id] = product] ELSE prods

Movement(productId, type, quantity, reason) ==
    [productId |-> productId, type |-> type, quantity |-> quantity,
     reason |-> reason]

\* a plausible slip: no Math.max(0, ...), the stock may go below zero
MovedStockUnclamped(stock, type, quantity) ==
    CASE type = "in" -> stock + quantity
      [] type = "out" -> stock - quantity
      [] type = "adjustment" -> quantity
      [] OTHER -> stock

\* a plausible slip: an adjustment is added to the stock like a movement "in"
MovedStockAdjustmentAdds(stock, type, quantity) ==
    LET newQuantity ==
            CASE type = "in" -> stock + quantity
              [] type = "out" -> stock - quantity
              [] type = "adjustment" -> stock + quantity
              [] OTHER -> stock
    IN  IF newQuantity >= 0 THEN newQuantity ELSE 0

\* the stock a movement leaves on a product that holds `stock`
MovedStock(stock, type, quantity) ==
    LET newQuantity ==
            CASE type = "in" -> stock + quantity
              [] type = "out" -> stock - quantity
              [] type = "adjustment" -> quantity
              [] OTHER -> stock
    IN  Max(0, newQuantity)

\* createStockMovement: <<products, stockMovements>> after the call.  The
\* record is stored first; the stock changes only when the product exists.
createStockMovement(prods, movs, m) ==
    LET product == getProduct(prods, m.productId)
    IN  << IF IsSome(product)
             THEN updateProduct(prods, m.productId,
                    [product[1] EXCEPT !.stockQuantity =
                        MovedStock(product[1].stockQuantity, m.type, m.quantity)])
             ELSE prods,
           Append(movs, m) >>

\* a plausible slip: the loop updates the stock directly and only records
\* the movement, so nothing clamps the stock
RestockItemDirectOnly(prods, movs, item) ==
    LET product == getProduct(prods, item.productId)
    IN  << IF IsSome(product)
             THEN updateProduct(prods, item.productId,
                    [product[1] EXCEPT !.stockQuantity =
                        product[1].stockQuantity + item.quantity])
             ELSE prods,
           Append(movs, Movement(item.productId, "in", item.quantity, "return")) >>

\* a plausible slip: the movement is created inside `if (product)`, so a
\* returned item of an unknown product leaves no record
RestockItemKnownOnly(prods, movs, item) ==
    LET product == getProduct(prods, item.productId)
    IN  IF IsSome(product)
          THEN createStockMovement(
                  updateProduct(prods, item.productId,
                     [product[1] EXCEPT !.stockQuantity =
                         product[1].stockQuantity + item.quantity]),
                  movs, Movement(item.productId, "in", item.quantity, "return"))
          ELSE <<prods, movs>>

\* one turn of createReturn's loop over the items: the direct stock update,
\* then the stock movement of type "in"
RestockItem(prods, movs, item) ==
    LET product == getProduct(prods, item.productId)
        restocked ==
            IF IsSome(product)
              THEN updateProduct(prods, item.productId,
                     [product[1] EXCEPT !.stockQuantity =
                         product[1].stockQuantity + item.quantity])
              ELSE prods
    IN  createStockMovement(restocked, movs,
            Movement(item.productId, "in", item.quantity, "return"))

RECURSIVE RestockItems(_, _, _)
RestockItems(prods, movs, items) ==
    IF items = << >> THEN <<prods, movs>>
    ELSE LET one == RestockItem(prods, movs, Head(items))
         IN  RestockItems(one[1], one[2], Tail(items))

\* the Return record createReturn stores for request data `data`
NewReturn(returnId, data) ==
    [id |-> returnId, orderId |-> data.orderId,
     customerEmail |-> data.customerEmail,
     refundAmount |-> data.refundAmount, creditAmount |-> data.creditAmount]

NewReturnItem(returnId, item) ==
    [returnId |-> returnId, productId |-> item.productId,
     quantity |-> item.quantity, unitPrice |-> item.unitPrice,
     subtotal |-> item.subtotal, exchangeProductId |-> item.exchangeProductId]

\* createReturn: stores the return and its items, then restocks item by item
createReturn(data, items) ==
    LET returnId == Len(returns) + 1
        after == RestockItems(products, stockMovements, items)
    IN  /\ returns' = Append(returns, NewReturn(returnId, data))
        /\ returnItems' = returnItems \o
               [i \in 1 .. Len(items) |-> NewReturnItem(returnId, items[i])]
        /\ products' = after[1]
        /\ stockMovements' = after[2]

(***************************************************************************)
(* MemStorage: orders.                                                     *)
(***************************************************************************)
\* randomUUID(): the id of the n-th order created
OrderId(n) == "o" \o ToString(n)

\* createOrder: the Order record; orderNumber is fresh
NewOrder(orderNumber, insertOrder) ==
    [orderNumber |-> orderNumber,
     customerName |-> insertOrder.customerName,
     customerEmail |-> insertOrder.customerEmail,
     status |-> insertOrder.status,
     totalAmount |-> insertOrder.totalAmount]

\* createOrder: the OrderItem record
NewOrderItem(orderId, item) ==
    [orderId |-> orderId, productId |-> item.productId,
     quantity |-> item.quantity, unitPrice |-> item.unitPrice,
     subtotal |-> item.subtotal]

\* createOrder: stores the order and its items; no stock is touched
createOrder(insertOrder, insertItems) ==
    LET id == OrderId(orderSeq + 1)
    IN  /\ orders' = (id :> NewOrder(orderSeq + 1, insertOrder)) @@ orders
        /\ orderItems' = orderItems \o
               [i \in 1 .. Len(insertItems) |-> NewOrderItem(id, insertItems[i])]
        /\ orderSeq' = orderSeq + 1

\* updateOrder: the stored order becomes the request's data, with the id,
\* orderNumber and createdAt of the existing one
updateOrder(ords, id, insertOrder) ==
    IF id \notin DOMAIN ords THEN ords
    ELSE [ords EXCEPT ![id] = NewOrder(ords[id].orderNumber, insertOrder)]

\* getOrderItems
getOrderItems(items, orderId) ==
    LET OfOrder(item) == item.orderId = orderId
    IN  SelectSeq(items, OfOrder)

\* deleteOrder: the items first, then the order
deleteOrderItems(items, orderId) ==
    LET NotOfOrder(item) == item.orderId # orderId
    IN  SelectSeq(items, NotOfOrder)

(***************************************************************************)
(* MemStorage: discount codes.                                             *)
(***************************************************************************)
\* getDiscountCode: the first stored code whose code string is `code`
getDiscountCode(codes, code) ==
    LET hits == {id \in DOMAIN codes : codes[id].code = code}
    IN  IF hits = {} THEN None ELSE Some(codes[CHOOSE id \in hits : \A o \in hits : id <= o])

\* createDiscountCode: the stored record
NewDiscountCode(id, data) ==
    [id |-> id, code |-> data.code, customerEmail |-> data.customerEmail,
     amount |-> data.amount, expiresAt |-> data.expiresAt,
     isUsed |-> FALSE, usedAt |-> None, createdAt |-> now]

createDiscountCode(codes, id, data) ==
    (id :> NewDiscountCode(id, data)) @@ codes

Without(f, id) == [k \in DOMAIN f \ {id} |-> f[k]]

(***************************************************************************)
(* MemStorage.useDiscountCode: the result record, with the discount codes  *)
(* the call leaves (`codes`).                                              *)
(***************************************************************************)
UseResult(updated, wasDeleted, wasFound, error, codes) ==
    [updated |-> updated, wasDeleted |-> wasDeleted, wasFound |-> wasFound,
     error |-> error, codes |-> codes]

\* a plausible slip: no over-redemption guard, the redemption is clamped to the
\* balance
ExceedsCreditNever(usedAmount, currentAmount) == FALSE

\* if (usedAmount > currentAmount)
ExceedsCredit(usedAmount, currentAmount) == usedAmount > currentAmount

\* a plausible slip: only a negative remainder removes the code
ExhaustedStrict(remainingAmount) == remainingAmount < 0

\* if (remainingAmount <= 0)
Exhausted(remainingAmount) == remainingAmount <= 0

\* a plausible slip: a partial redemption marks the code used
PartlyUsedMarked(discountCode, remainingAmount) ==
    [discountCode EXCEPT !.amount = toFixed2(remainingAmount), !.isUsed = TRUE]

\* { ...discountCode, amount: remainingAmount.toFixed(2) }
PartlyUsed(discountCode, remainingAmount) ==
    [discountCode EXCEPT !.amount = toFixed2(remainingAmount)]

\* useDiscountCode from the line after `await this.getDiscountCode(code)`:
\* discountCode is what that call returned, codes is the store as it is by now
useDiscountCodeResumed(codes, discountCode, amountUsed) ==
    LET currentAmount == parseFloat(Some(discountCode[1].amount))
        usedAmount == parseFloat(amountUsed)
        remainingAmount == currentAmount[1] - usedAmount[1]
    IN  IF ~IsSome(discountCode)
          THEN UseResult(None, FALSE, FALSE, "", codes)
        ELSE IF isNaN(usedAmount) \/ usedAmount[1] <= 0
          THEN UseResult(None, FALSE, TRUE, "Amount used must be a positive number", codes)
        ELSE IF ExceedsCredit(usedAmount[1], currentAmount[1])
          THEN UseResult(None, FALSE, TRUE, "exceeds available credit", codes)
        ELSE IF Exhausted(remainingAmount)
          THEN UseResult(None, TRUE, TRUE, "", Without(codes, discountCode[1].id))
        ELSE LET updated == PartlyUsed(discountCode[1], remainingAmount)
             IN  UseResult(Some(updated), FALSE, TRUE, "",
                           (discountCode[1].id :> updated) @@ codes)

\* useDiscountCode with nothing in between its two stretches
useDiscountCode(codes, code, amountUsed) ==
    useDiscountCodeResumed(codes, getDiscountCode(codes, code), amountUsed)

(***************************************************************************)
(* routes.ts: products.                                                    *)
(***************************************************************************)
\* POST /api/products
PostProducts(p) ==
    /\ productSeq < MaxProducts
    /\ IF IsSome(getProductBySKU(products, p.sku))
         THEN /\ resp' = Response("postProducts", 400, Some("Product with this SKU already exists"))
              /\ UNCHANGED <<products, productSeq>>
         ELSE /\ products' = ((productSeq + 1) :> p) @@ products
              /\ productSeq' = productSeq + 1
              /\ resp' = Response("postProducts", 201, Some(productSeq + 1))
    /\ UNCHANGED <<stockMovements, returns, returnItems, discountCodes, codeSeq,
                   now, orderVars, requestVars, pendingEmail, outbox, emailResult, dialog>>

\* a plausible slip: deleting a product takes its stock movements with it, as
\* deleting an order takes its items
DeleteProductCascade(id) ==
    /\ IF id \in DOMAIN products
         THEN /\ products' = Without(products, id)
              /\ stockMovements' =
                    LET NotOfProduct(m) == m.productId # id
                    IN  SelectSeq(stockMovements, NotOfProduct)
              /\ resp' = Response("deleteProduct", 204, None)
         ELSE /\ resp' = Response("deleteProduct", 404, Some("Product not found"))
              /\ UNCHANGED <<products, stockMovements>>
    /\ UNCHANGED <<productSeq, returns, returnItems,
                   discountCodes, codeSeq, now, orderVars, requestVars,
                   pendingEmail, outbox, emailResult, dialog>>

\* DELETE /api/products/:id
DeleteProduct(id) ==
    /\ IF id \in DOMAIN products
         THEN /\ products' = Without(products, id)
              /\ resp' = Response("deleteProduct", 204, None)
         ELSE /\ resp' = Response("deleteProduct", 404, Some("Product not found"))
              /\ UNCHANGED products
    /\ UNCHANGED <<productSeq, stockMovements, returns, returnItems,
                   discountCodes, codeSeq, now, orderVars, requestVars, pendingEmail, outbox,
                   emailResult, dialog>>

(***************************************************************************)
(* routes.ts: products (update), orders and stock movements.               *)
(***************************************************************************)
\* insertProductSchema: sku non-empty, stockQuantity an integer >= 0 (a price
\* of the model is always a non-empty string)
ProductValid(p) == p.sku # "" /\ p.stockQuantity >= 0

\* PATCH /api/products/:id
PatchProducts(id, p) ==
    /\ IF ~ProductValid(p)
         THEN /\ resp' = Response("patchProducts", 400, Some("Validation error"))
              /\ UNCHANGED products
         ELSE LET existing == getProductBySKU(products, p.sku)
              IN  IF IsSome(existing) /\ existing[1] # id
                    THEN /\ resp' = Response("patchProducts", 400,
                                        Some("Product with this SKU already exists"))
                         /\ UNCHANGED products
                    ELSE IF id \notin DOMAIN products
                      THEN /\ resp' = Response("patchProducts", 404, Some("Product not found"))
                           /\ UNCHANGED products
                      ELSE /\ products' = updateProduct(products, id, p)
                           /\ resp' = Response("patchProducts", 200, Some(id))
    /\ UNCHANGED <<productSeq, stockMovements, returns, returnItems,
                   discountCodes, codeSeq, now, orderVars, requestVars, pendingEmail, outbox,
                   emailResult, dialog>>

\* the e-mail addresses of the model that z.string().email() accepts
WellFormedEmails == {"ann@example.com", "bob@example.com"}

\* z.string().email().optional().or(z.literal(""))
EmailValid(o) == o = None \/ o[1] = "" \/ o[1] \in WellFormedEmails

OrderStatuses == {"pending", "processing", "shipped", "delivered", "cancelled"}

\* insertOrderSchema
OrderValid(data) ==
    /\ data.customerName # ""
    /\ EmailValid(data.customerEmail)
    /\ data.status \in OrderStatuses
    /\ IsSome(data.totalAmount)

\* z.array(insertOrderItemSchema): quantity an integer >= 1
OrderItemsValid(items) == \A i \in 1 .. Len(items) : items[i].quantity >= 1

RECURSIVE SellItems(_, _, _)
\* a plausible variant: every order line is taken from the stock by a movement
\* "out"
SellItems(prods, movs, items) ==
    IF items = << >> THEN <<prods, movs>>
    ELSE LET one == createStockMovement(prods, movs,
                        Movement(Head(items).productId, "out",
                                 Head(items).quantity, "sale"))
         IN  SellItems(one[1], one[2], Tail(items))

\* POST /api/orders, if creating an order sold from the stock
PostOrdersHandlerSelling(body) ==
    /\ IF ~OrderValid(body)
         THEN /\ resp' = Response("postOrders", 400, Some("Validation error"))
              /\ UNCHANGED <<orders, orderItems, orderSeq, products, stockMovements>>
         ELSE IF body.items = << >>
           THEN /\ resp' = Response("postOrders", 400,
                               Some("Order must have at least one item"))
                /\ UNCHANGED <<orders, orderItems, orderSeq, products, stockMovements>>
         ELSE IF ~OrderItemsValid(body.items)
           THEN /\ resp' = Response("postOrders", 400, Some("Validation error"))
                /\ UNCHANGED <<orders, orderItems, orderSeq, products, stockMovements>>
         ELSE /\ orderSeq < MaxOrders
              /\ createOrder(body, body.items)
              /\ products' = SellItems(products, stockMovements, body.items)[1]
              /\ stockMovements' = SellItems(products, stockMovements, body.items)[2]
              /\ resp' = Response("postOrders", 201, Some(OrderId(orderSeq + 1)))
    /\ UNCHANGED <<productSeq, returns, returnItems,
                   discountCodes, codeSeq, now, pendingEmail, outbox,
                   emailResult, dialog, requestVars>>

\* POST /api/orders: the handler
PostOrdersHandler(body) ==
    /\ IF ~OrderValid(body)
         THEN /\ resp' = Response("postOrders", 400, Some("Validation error"))
              /\ UNCHANGED <<orders, orderItems, orderSeq>>
         ELSE IF body.items = << >>
           THEN /\ resp' = Response("postOrders", 400,
                               Some("Order must have at least one item"))
                /\ UNCHANGED <<orders, orderItems, orderSeq>>
         ELSE IF ~OrderItemsValid(body.items)
           THEN /\ resp' = Response("postOrders", 400, Some("Validation error"))
                /\ UNCHANGED <<orders, orderItems, orderSeq>>
         ELSE /\ orderSeq < MaxOrders
              /\ createOrder(body, body.items)
              /\ resp' = Response("postOrders", 201, Some(OrderId(orderSeq + 1)))
    /\ UNCHANGED <<products, productSeq, stockMovements, returns, returnItems,
                   discountCodes, codeSeq, now, pendingEmail, outbox,
                   emailResult, dialog, requestVars>>

\* POST /api/orders sent by any client
PostOrders(body) ==
    /\ PostOrdersHandler(body)
    /\ UNCHANGED creditDialog

\* PATCH /api/orders/:id
PatchOrders(id, data) ==
    /\ IF ~OrderValid(data)
         THEN /\ resp' = Response("patchOrders", 400, Some("Validation error"))
              /\ UNCHANGED orders
         ELSE IF id \notin DOMAIN orders
           THEN /\ resp' = Response("patchOrders", 404, Some("Order not found"))
                /\ UNCHANGED orders
         ELSE /\ orders' = updateOrder(orders, id, data)
              /\ resp' = Response("patchOrders", 200, Some(id))
    /\ UNCHANGED <<products, productSeq, orderItems, orderSeq, creditDialog,
                   stockMovements, returns, returnItems, discountCodes, codeSeq,
                   now, pendingEmail, outbox, emailResult, dialog, requestVars>>

\* DELETE /api/orders/:id
DeleteOrder(id) ==
    /\ IF id \in DOMAIN orders
         THEN /\ orderItems' = deleteOrderItems(orderItems, id)
              /\ orders' = Without(orders, id)
              /\ resp' = Response("deleteOrder", 204, None)
         ELSE /\ resp' = Response("deleteOrder", 404, Some("Order not found"))
              /\ UNCHANGED <<orders, orderItems>>
    /\ UNCHANGED <<products, productSeq, orderSeq, creditDialog,
                   stockMovements, returns, returnItems, discountCodes, codeSeq,
                   now, pendingEmail, outbox, emailResult, dialog, requestVars>>

MovementTypes == {"in", "out", "adjustment"}

\* insertStockMovementSchema: type one of the three, quantity an integer >= 1
MovementValid(m) == m.type \in MovementTypes /\ m.quantity >= 1

\* POST /api/stock-movements
PostStockMovements(m) ==
    /\ IF ~MovementValid(m)
         THEN /\ resp' = Response("postStockMovements", 400, Some("Validation error"))
              /\ UNCHANGED <<products, stockMovements>>
         ELSE LET after == createStockMovement(products, stockMovements, m)
              IN  /\ Len(stockMovements) < MaxMovements
                  /\ \A id \in DOMAIN after[1] : after[1][id].stockQuantity <= StockCap
                  /\ products' = after[1]
                  /\ stockMovements' = after[2]
                  /\ resp' = Response("postStockMovements", 201,
                                      Some(Len(stockMovements) + 1))
    /\ UNCHANGED <<productSeq, returns, returnItems, discountCodes, codeSeq,
                   now, orderVars, requestVars, pendingEmail, outbox, emailResult, dialog>>

(***************************************************************************)
(* routes.ts: POST /api/returns.                                           *)
(***************************************************************************)
\* `CREDIT-${Date.now()}-${random}`: the code string of the next discount code
GenCode(seq) == seq + 1

\* a plausible slip: a credit of zero passes the guard
HasCreditOrZero(ret) ==
    /\ IsSome(ret.creditAmount)
    /\ ~isNaN(parseFloat(ret.creditAmount))
    /\ parseFloat(ret.creditAmount)[1] >= 0
    /\ TruthyString(ret.customerEmail)

\* the guard of the discount-code branch
HasCredit(ret) ==
    /\ IsSome(ret.creditAmount)
    /\ ~isNaN(parseFloat(ret.creditAmount))
    /\ parseFloat(ret.creditAmount)[1] > 0
    /\ TruthyString(ret.customerEmail)

\* insertReturnSchema, on the fields the model keeps
ReturnValid(body) == EmailValid(body.customerEmail)

\* a plausible slip: the items are checked after createReturn has stored the
\* return, so the rejected request leaves a return behind
PostReturnsHandlerLateCheck(body) ==
    /\ pendingEmail = None
    /\ IF ~ReturnValid(body)
         THEN /\ resp' = Response("postReturns", 400, Some("Validation error"))
              /\ UNCHANGED <<products, stockMovements, returns, returnItems,
                             discountCodes, codeSeq, pendingEmail>>
         ELSE /\ Len(returns) < MaxReturns
              /\ createReturn(body, body.items)
              /\ LET ret == NewReturn(Len(returns) + 1, body)
                 IN  IF body.items = << >>
                       THEN /\ resp' = Response("postReturns", 400,
                                           Some("Return must have at least one item"))
                            /\ UNCHANGED <<discountCodes, codeSeq, pendingEmail>>
                     ELSE IF HasCredit(ret)
                       THEN LET code == GenCode(codeSeq)
                                data == [code |-> code,
                                         customerEmail |-> ret.customerEmail[1],
                                         amount |-> ret.creditAmount[1],
                                         expiresAt |-> Some(now + ExpiryMonths)]
                            IN  /\ discountCodes' =
                                      createDiscountCode(discountCodes, codeSeq + 1, data)
                                /\ codeSeq' = codeSeq + 1
                                /\ pendingEmail' = Some([returnId |-> ret.id, code |-> code])
                                /\ resp' = Response("postReturns", 0, None)
                       ELSE /\ resp' = Response("postReturns", 201, Some(ret.id))
                            /\ UNCHANGED <<discountCodes, codeSeq, pendingEmail>>
    /\ UNCHANGED <<productSeq, now, orderVars, requestVars, outbox, emailResult>>

\* the handler up to its first real wait: validation, createReturn and, when
\* there is credit, createDiscountCode; the e-mail send is then pending
PostReturnsHandler(body) ==
    /\ pendingEmail = None
    /\ IF ~ReturnValid(body)
         THEN /\ resp' = Response("postReturns", 400, Some("Validation error"))
              /\ UNCHANGED <<products, stockMovements, returns, returnItems,
                             discountCodes, codeSeq, pendingEmail>>
         ELSE IF body.items = << >>
         THEN /\ resp' = Response("postReturns", 400, Some("Return must have at least one item"))
              /\ UNCHANGED <<products, stockMovements, returns, returnItems,
                             discountCodes, codeSeq, pendingEmail>>
         ELSE /\ Len(returns) < MaxReturns
              /\ createReturn(body, body.items)
              /\ LET ret == NewReturn(Len(returns) + 1, body)
                 IN  IF HasCredit(ret)
                       THEN LET code == GenCode(codeSeq)
                                data == [code |-> code,
                                         customerEmail |-> ret.customerEmail[1],
                                         amount |-> ret.creditAmount[1],
                                         expiresAt |-> Some(now + ExpiryMonths)]
                            IN  /\ discountCodes' =
                                      createDiscountCode(discountCodes, codeSeq + 1, data)
                                /\ codeSeq' = codeSeq + 1
                                /\ pendingEmail' = Some([returnId |-> ret.id, code |-> code])
                                /\ resp' = Response("postReturns", 0, None)
                       ELSE /\ resp' = Response("postReturns", 201, Some(ret.id))
                            /\ UNCHANGED <<discountCodes, codeSeq, pendingEmail>>
    /\ UNCHANGED <<productSeq, now, orderVars, requestVars, outbox, emailResult>>

\* POST /api/returns sent by any client
PostReturns(body) ==
    /\ PostReturnsHandler(body)
    /\ UNCHANGED dialog

EmailOutcomes == {"sent", "skipped", "failed"}

\* a plausible slip: no inner try/catch, so a failed send reaches the handler's
\* outer catch, which answers 500; a compensating version also takes the
\* discount code back
EmailDoneFailureFatal(outcome) ==
    /\ pendingEmail # None
    /\ outbox' = IF outcome = "sent" THEN outbox \cup {pendingEmail[1].code} ELSE outbox
    /\ emailResult' = outcome
    /\ pendingEmail' = None
    /\ IF outcome = "failed"
         THEN /\ resp' = Response("postReturns", 500, Some("Failed to create return"))
              /\ discountCodes' = Without(discountCodes, pendingEmail[1].code)
         ELSE /\ resp' = Response("postReturns", 201, Some(pendingEmail[1].returnId))
              /\ UNCHANGED discountCodes
    /\ UNCHANGED <<products, productSeq, stockMovements, returns, returnItems,
                   codeSeq, now, orderVars, requestVars, dialog>>

\* the rest of the handler: emailService.sendDiscountCode ends (the mail is
\* sent, SMTP is not configured, or sendMail throws and the error is logged),
\* then the handler answers 201
EmailDone(outcome) ==
    /\ pendingEmail # None
    /\ outbox' = IF outcome = "sent" THEN outbox \cup {pendingEmail[1].code} ELSE outbox
    /\ emailResult' = outcome
    /\ pendingEmail' = None
    /\ resp' = Response("postReturns", 201, Some(pendingEmail[1].returnId))
    /\ UNCHANGED <<products, productSeq, stockMovements, returns, returnItems,
                   discountCodes, codeSeq, now, orderVars, requestVars, dialog>>

(***************************************************************************)
(* routes.ts: discount codes.                                              *)
(***************************************************************************)
\* the zod schema of the use request: amountUsed is a string whose parseFloat
\* is a number greater than 0
AmountUsedValid(amountUsed) ==
    LET num == parseFloat(amountUsed)
    IN  ~isNaN(num) /\ num[1] > 0

\* POST /api/discount-codes/:code/use: the handler
UseDiscountCodeHandler(code, amountUsed) ==
    LET result == useDiscountCode(discountCodes, code, amountUsed)
    IN  /\ IF ~AmountUsedValid(amountUsed)
             THEN /\ resp' = Response("useDiscountCode", 400,
                                      Some("Amount used must be a positive number"))
                  /\ UNCHANGED discountCodes
           ELSE IF ~result.wasFound
             THEN /\ resp' = Response("useDiscountCode", 404,
                                      Some("Discount code not found"))
                  /\ UNCHANGED discountCodes
           ELSE IF result.error # ""
             THEN /\ resp' = Response("useDiscountCode", 400, Some(result.error))
                  /\ UNCHANGED discountCodes
           ELSE /\ discountCodes' = result.codes
                /\ resp' = Response("useDiscountCode", 200,
                                    Some([remainingCredit |-> result.updated,
                                          fullyUsed |-> result.wasDeleted]))
        /\ UNCHANGED <<products, productSeq, orders, orderItems, orderSeq,
                       stockMovements, returns, returnItems, codeSeq, now,
                       pendingEmail, outbox, emailResult, dialog, inflight>>

\* POST /api/discount-codes/:code/use sent by any client
UseDiscountCode(code, amountUsed) ==
    /\ UseDiscountCodeHandler(code, amountUsed)
    /\ UNCHANGED <<creditDialog, redeemed>>

\* GET /api/discount-codes/:code
GetDiscountCode(code) ==
    LET found == getDiscountCode(discountCodes, code)
    IN  /\ resp' = IF IsSome(found)
                     THEN Response("getDiscountCode", 200, found)
                     ELSE Response("getDiscountCode", 404,
                                   Some("Discount code not found"))
        /\ UNCHANGED <<products, productSeq, stockMovements, returns,
                       returnItems, discountCodes, codeSeq, now, orderVars, requestVars, pendingEmail,
                       outbox, emailResult, dialog>>

\* DELETE /api/discount-codes/:id
DeleteDiscountCode(id) ==
    /\ IF id \in DOMAIN discountCodes
         THEN /\ discountCodes' = Without(discountCodes, id)
              /\ resp' = Response("deleteDiscountCode", 204, None)
         ELSE /\ resp' = Response("deleteDiscountCode", 404,
                                  Some("Discount code not found"))
              /\ UNCHANGED discountCodes
    /\ UNCHANGED <<products, productSeq, stockMovements, returns, returnItems,
                   codeSeq, now, orderVars, requestVars, pendingEmail, outbox, emailResult, dialog>>

\* time passes
Tick ==
    /\ now < MaxNow
    /\ now' = now + 1
    /\ UNCHANGED <<products, productSeq, stockMovements, returns, returnItems,
                   discountCodes, codeSeq, pendingEmail, outbox, emailResult,
                   dialog, resp, orderVars, requestVars>>

(***************************************************************************)
(* Requests.                                                               *)
(***************************************************************************)
\* a return item as the return dialog builds it
ReturnItem(productId, quantity, unitPrice, exchangeProductId) ==
    [productId |-> productId, quantity |-> quantity, unitPrice |-> unitPrice,
     subtotal |-> toFixed2(quantity * unitPrice),
     exchangeProductId |-> exchangeProductId]

\* amountUsed of a request: no number, "0", "0.004", "0.996", "1.00", "2.00"
AmountsUsed == {None, Some(0), Some(4), Some(996), Some(1000), Some(2000)}

\* code strings and discount-code ids a request may name
Codes == 1 .. MaxReturns

ReturnBody(customerEmail, creditAmount, items) ==
    [orderId |-> "o1", customerEmail |-> customerEmail,
     refundAmount |-> Some(0), creditAmount |-> creditAmount, items |-> items]

\* return requests that earn store credit: "1.00" or "2.00" for a customer
\* with an e-mail address
IssueBodies ==
    {ReturnBody(Some("ann@example.com"), Some(credit), <<ReturnItem(1, 1, 2000, None)>>) :
        credit \in {1000, 2000}}

(***************************************************************************)
(* Spec: the store-credit ledger.  Returns issue discount codes, which are *)
(* looked up, redeemed and deleted while time passes.  The e-mails are     *)
(* delivered here; SpecReturns has the sends that fail.                    *)
(***************************************************************************)
Next ==
    \/ \E body \in IssueBodies : PostReturns(body)
    \/ EmailDone("sent")
    \/ \E code \in Codes, amountUsed \in AmountsUsed : UseDiscountCode(code, amountUsed)
    \/ \E code \in Codes : GetDiscountCode(code)
    \/ \E id \in Codes : DeleteDiscountCode(id)
    \/ Tick

Spec == Init /\ [][Next]_vars

(***************************************************************************)
(* Claims about the store-credit ledger, checked under Spec.               *)
(***************************************************************************)
\* the stored discount code with code string c, and whether there is one
Stored(c) == getDiscountCode(discountCodes, c)

StoredAfter(c) == getDiscountCode(discountCodes', c)

\* a redemption request that passes the route's schema and finds its code
Redeems(c, a) ==
    /\ UseDiscountCode(c, a)
    /\ AmountUsedValid(a)
    /\ IsSome(Stored(c))

C7_OverRedemptionRejected ==
    [][\A c \in Codes, a \in AmountsUsed :
          (Redeems(c, a) /\ a[1] > Stored(c)[1].amount)
              => /\ resp'.status = 400
                 /\ discountCodes' = discountCodes
      ]_vars

\* C7 witness: an over-redemption was just rejected while two codes are stored
C7_Witness ==
    /\ resp.op = "useDiscountCode"
    /\ resp.status = 400
    /\ resp.body = Some("exceeds available credit")
    /\ Cardinality(DOMAIN discountCodes) = 2

\* C8 as stated: a use request for a code string no stored discount code has
\* answers 404 and changes nothing, whatever its body.
C8_UnknownCodeIs404 ==
    [][\A c \in Codes, a \in AmountsUsed :
          (UseDiscountCode(c, a) /\ ~IsSome(Stored(c)))
              => /\ resp'.status = 404
                 /\ UNCHANGED store
      ]_vars

(***************************************************************************)
(* SpecReturns: return requests with and without credit and e-mail, the    *)
(* e-mail sends that succeed, are skipped or fail, and deletions of        *)
(* discount codes in between.                                              *)
(***************************************************************************)
\* creditAmount of a request: absent, "0.00", "1.00", "2.00"
CreditAmounts == {None, Some(0), Some(1000), Some(2000)}

ReturnBodies ==
    {ReturnBody(email, credit, items) :
        email \in Emails, credit \in CreditAmounts,
        items \in {<< >>, <<ReturnItem(1, 1, 2000, None)>>}}

NextReturns ==
    \/ \E body \in ReturnBodies : PostReturns(body)
    \/ \E outcome \in EmailOutcomes : EmailDone(outcome)
    \/ \E id \in Codes : DeleteDiscountCode(id)

SpecReturns == Init /\ [][NextReturns]_vars

(***************************************************************************)
(* SpecStock: the catalogue and the returns that restock it.               *)
(***************************************************************************)
\* largest stock a new product is created with
MaxStock == 1

NewProducts == [sku : Skus, price : {2000}, stockQuantity : 0 .. MaxStock]

\* the items of a return request: one or two lines
StockItems ==
    LET Lines == {ReturnItem(p, q, 2000, None) : p \in ProductIds, q \in 1 .. MaxQty}
    IN  {<<i>> : i \in Lines} \cup {<<i, j>> : i \in Lines, j \in Lines}

StockBodies == {ReturnBody(None, None, items) : items \in StockItems}

NextStock ==
    \/ \E p \in NewProducts : PostProducts(p)
    \/ \E id \in ProductIds : DeleteProduct(id)
    \/ \E body \in StockBodies : PostReturns(body)

SpecStock == Init /\ [][NextStock]_vars

(***************************************************************************)
(* Claims about POST /api/returns and its discount code, checked under     *)
(* SpecReturns.                                                            *)
(***************************************************************************)
\* the discount codes a step adds
NewCodeIds == DOMAIN discountCodes' \ DOMAIN discountCodes

\* the stored discount codes are still there, unchanged
OldCodesKept ==
    \A id \in DOMAIN discountCodes :
        id \in DOMAIN discountCodes' /\ discountCodes'[id] = discountCodes[id]

\* C9: a return request that is accepted with creditAmount > 0 and a non-empty
\* customerEmail adds exactly one discount code, with amount = creditAmount,
\* that customerEmail, isUsed false and usedAt null; a request with creditAmount
\* absent or 0, or with the e-mail absent or empty, adds none, and neither does
\* a rejected request or the end of the e-mail send.
C9_CreditIssuesOneCode ==
    [][/\ \A body \in ReturnBodies :
             PostReturns(body) =>
                IF /\ body.items # << >>
                   /\ IsSome(body.creditAmount) /\ body.creditAmount[1] > 0
                   /\ IsSome(body.customerEmail) /\ body.customerEmail[1] # ""
                  THEN /\ Cardinality(NewCodeIds) = 1
                       /\ OldCodesKept
                       /\ \A id \in NewCodeIds :
                             /\ discountCodes'[id].amount = body.creditAmount[1]
                             /\ discountCodes'[id].customerEmail = body.customerEmail[1]
                             /\ discountCodes'[id].isUsed = FALSE
                             /\ discountCodes'[id].usedAt = None
                  ELSE discountCodes' = discountCodes
       /\ \A outcome \in EmailOutcomes :
             EmailDone(outcome) => discountCodes' = discountCodes
      ]_vars

\* C9 witness: of two accepted returns with credit "2.00", the one with an
\* e-mail address earned a discount code for "2.00" and the one without did not
C9_Witness ==
    /\ resp.op = "postReturns"
    /\ resp.status = 201
    /\ Len(returns) = 2
    /\ returns[1].creditAmount = Some(2000)
    /\ returns[1].customerEmail = Some("")
    /\ returns[2].creditAmount = Some(2000)
    /\ returns[2].customerEmail = Some("ann@example.com")
    /\ codeSeq = 1
    /\ DOMAIN discountCodes = {1}
    /\ discountCodes[1].amount = 2000

\* C10: however the e-mail send ends, failure included, the request answers 201
\* and the end of the send changes neither the returns, the return items, the
\* products, the stock movements nor the discount codes; the return a 201 names
\* is stored with its items.
C10_EmailFailureNotFatal ==
    [][/\ \A outcome \in EmailOutcomes :
             EmailDone(outcome) =>
                /\ resp'.op = "postReturns"
                /\ resp'.status = 201
                /\ UNCHANGED <<returns, returnItems, products, stockMovements,
                               discountCodes>>
       /\ (resp'.op = "postReturns" /\ resp'.status = 201) =>
             /\ resp'.body[1] \in 1 .. Len(returns')
             /\ \E i \in 1 .. Len(returnItems') : returnItems'[i].returnId = resp'.body[1]
             /\ \E i \in 1 .. Len(stockMovements') : stockMovements'[i].reason = "return"
      ]_vars

\* C10 witness: the send failed, the request was answered 201, and the return
\* and its discount code, never mailed, are stored
C10_Witness ==
    /\ emailResult = "failed"
    /\ resp.op = "postReturns"
    /\ resp.status = 201
    /\ resp.body[1] \in 1 .. Len(returns)
    /\ \E id \in DOMAIN discountCodes :
          /\ id \notin outbox
          /\ discountCodes[id].amount = returns[resp.body[1]].creditAmount[1]

(***************************************************************************)
(* Claims about restocking, checked under SpecStock.                       *)
(***************************************************************************)
RECURSIVE SumQuantity(_, _)
\* the total quantity the items return of product p
SumQuantity(items, p) ==
    IF items = << >> THEN 0
    ELSE (IF Head(items).productId = p THEN Head(items).quantity ELSE 0)
            + SumQuantity(Tail(items), p)

\* C4 as stated: an accepted return raises the stock of every returned product
\* that is in the catalogue by exactly the total quantity returned of it.
C4_RestockedByReturnedQuantity ==
    [][\A body \in StockBodies :
          PostReturns(body) =>
             \A p \in DOMAIN products :
                /\ p \in DOMAIN products'
                /\ products'[p].stockQuantity =
                       products[p].stockQuantity + SumQuantity(body.items, p)
      ]_vars

(***************************************************************************)
(* The return dialog of the client (CreateReturnDialog).                   *)
(***************************************************************************)
\* useEffect on opening: one return item per order line, quantity 0
OpenDialog(order) ==
    [order |-> order,
     returnItems |->
        [i \in 1 .. Len(order.items) |->
            [productId |-> order.items[i].productId,
             quantity |-> 0,
             unitPrice |-> order.items[i].unitPrice,
             subtotal |-> 0,
             exchangeProductId |-> None]]]

\* updateQuantity, on one item
WithQuantity(item, newQuantity) ==
    LET quantity == Max(0, Min(newQuantity, parseInt(item.unitPrice)))
    IN  [item EXCEPT !.quantity = quantity,
                     !.subtotal = toFixed2(quantity * item.unitPrice)]

\* the items with quantity > 0
ItemsToReturn(items) ==
    LET Positive(item) == item.quantity > 0
    IN  SelectSeq(items, Positive)

RECURSIVE TotalReturnValue(_)
\* totalReturnValue += parseFloat(item.subtotal)
TotalReturnValue(items) ==
    IF items = << >> THEN 0
    ELSE Head(items).subtotal + TotalReturnValue(Tail(items))

RECURSIVE TotalExchangeValue(_, _)
\* totalExchangeValue += parseFloat(exchangeProduct.price) * item.quantity, for
\* the items whose exchange product is in the product list
TotalExchangeValue(items, prods) ==
    IF items = << >> THEN 0
    ELSE LET item == Head(items)
             exchangeProduct ==
                 IF IsSome(item.exchangeProductId)
                   THEN getProduct(prods, item.exchangeProductId[1])
                   ELSE None
         IN  (IF IsSome(exchangeProduct)
                THEN exchangeProduct[1].price * item.quantity
                ELSE 0)
             + TotalExchangeValue(Tail(items), prods)

\* a plausible slip: the refund is paid whether or not there is an exchange
RefundOfReturnValue(totalReturnValue, totalExchangeValue) == totalReturnValue

\* const refundAmount = totalExchangeValue > 0 ? 0 : totalReturnValue
RefundOf(totalReturnValue, totalExchangeValue) ==
    IF totalExchangeValue > 0 THEN 0 ELSE totalReturnValue

\* a plausible slip: the credit forgets the exchange value
CreditOfReturnValue(totalReturnValue, totalExchangeValue) ==
    IF totalReturnValue > totalExchangeValue THEN totalReturnValue ELSE 0

\* const creditAmount = totalReturnValue > totalExchangeValue
\*     ? (totalReturnValue - totalExchangeValue) : 0
CreditOf(totalReturnValue, totalExchangeValue) ==
    IF totalReturnValue > totalExchangeValue
      THEN totalReturnValue - totalExchangeValue
      ELSE 0

calculateTotals(items, prods) ==
    LET itemsToReturn == ItemsToReturn(items)
        totalReturnValue == TotalReturnValue(itemsToReturn)
        totalExchangeValue == TotalExchangeValue(itemsToReturn, prods)
    IN  [total |-> totalReturnValue,
         refund |-> RefundOf(totalReturnValue, totalExchangeValue),
         credit |-> CreditOf(totalReturnValue, totalExchangeValue)]

\* the + and - buttons: updateQuantity(item.productId, item.quantity + delta),
\* which rewrites every item of that product
UpdateQuantity(i, delta) ==
    /\ IsSome(dialog)
    /\ i \in 1 .. Len(dialog[1].returnItems)
    /\ LET items == dialog[1].returnItems
           productId == items[i].productId
           newQuantity == items[i].quantity + delta
       IN  dialog' = Some([dialog[1] EXCEPT !.returnItems =
                [k \in 1 .. Len(items) |->
                    IF items[k].productId = productId
                      THEN WithQuantity(items[k], newQuantity)
                      ELSE items[k]]])
    /\ UNCHANGED <<products, productSeq, stockMovements, returns, returnItems,
                   discountCodes, codeSeq, now, orderVars, requestVars, pendingEmail, outbox,
                   emailResult, resp>>

\* setExchangeProduct: "none" clears the exchange
SetExchangeProduct(i, exchangeProductId) ==
    /\ IsSome(dialog)
    /\ i \in 1 .. Len(dialog[1].returnItems)
    /\ LET items == dialog[1].returnItems
           productId == items[i].productId
       IN  dialog' = Some([dialog[1] EXCEPT !.returnItems =
                [k \in 1 .. Len(items) |->
                    IF items[k].productId = productId
                      THEN [items[k] EXCEPT !.exchangeProductId = exchangeProductId]
                      ELSE items[k]]])
    /\ UNCHANGED <<products, productSeq, stockMovements, returns, returnItems,
                   discountCodes, codeSeq, now, orderVars, requestVars, pendingEmail, outbox,
                   emailResult, resp>>

\* onSubmit: nothing selected is a toast; else the totals are computed and the
\* return is posted, and the dialog closes
OnSubmit ==
    /\ IsSome(dialog)
    /\ LET order == dialog[1].order
           itemsToReturn == ItemsToReturn(dialog[1].returnItems)
           totals == calculateTotals(dialog[1].returnItems, products)
           customerEmail == IF TruthyString(order.customerEmail)
                              THEN order.customerEmail ELSE Some("")
       IN  IF Len(itemsToReturn) = 0
             THEN /\ resp' = Response("toast", 0, Some("No Items Selected"))
                  /\ UNCHANGED <<products, productSeq, stockMovements, returns,
                                 returnItems, discountCodes, codeSeq, now, orderVars, requestVars,
                                 pendingEmail, outbox, emailResult, dialog>>
             ELSE /\ PostReturnsHandler(
                        [orderId |-> order.id,
                         customerEmail |-> customerEmail,
                         refundAmount |-> Some(toFixed2(totals.refund)),
                         creditAmount |-> Some(toFixed2(totals.credit)),
                         items |-> itemsToReturn])
                  /\ dialog' = None

(***************************************************************************)
(* SpecDialog: a return made through the dialog.  The catalogue is loaded  *)
(* and the dialog has just been opened on an order of one or two lines.    *)
(***************************************************************************)
\* the prices of the catalogue, by product id: "1.50", "2.00", "3.00", ...;
\* every product has its own SKU
PriceList == <<1500, 2000, 3000>>

Catalogue ==
    [id \in ProductIds |->
        [sku |-> ToString(id), price |-> PriceList[((id - 1) % Len(PriceList)) + 1],
         stockQuantity |-> 0]]

\* an order line: the price is the one of the day of the order
OrderLines(productId) ==
    [productId : {productId}, quantity : 1 .. MaxQty, unitPrice : Prices]

\* orders of one line (product 1) or two (products 1 and 2)
DialogOrders ==
    [id : OrderIds, customerEmail : {None, Some("ann@example.com")},
     items : {<<l>> : l \in OrderLines(1)}
             \cup {<<l, m>> : l \in OrderLines(1), m \in OrderLines(2)}]

\* the order lines as POST /api/orders stored them
StoredLines(order) ==
    [i \in 1 .. Len(order.items) |->
        [orderId |-> order.id,
         productId |-> order.items[i].productId,
         quantity |-> order.items[i].quantity,
         unitPrice |-> order.items[i].unitPrice,
         subtotal |-> toFixed2(order.items[i].quantity * order.items[i].unitPrice)]]

\* the order as POST /api/orders stored it
StoredOrder(order) ==
    NewOrder(1, [customerName |-> "Ann", customerEmail |-> order.customerEmail,
                 status |-> "delivered",
                 totalAmount |-> Some(TotalReturnValue(StoredLines(order)))])

InitDialog ==
    /\ products = Catalogue
    /\ productSeq = MaxProducts
    /\ orderSeq = 1
    /\ creditDialog = None
    /\ stockMovements = << >>
    /\ returns = << >>
    /\ returnItems = << >>
    /\ discountCodes = << >>
    /\ codeSeq = 0
    /\ now = 0
    /\ pendingEmail = None
    /\ outbox = {}
    /\ emailResult = "none"
    /\ \E order \in DialogOrders :
          /\ orders = (order.id :> StoredOrder(order))
          /\ orderItems = StoredLines(order)
          /\ dialog = Some(OpenDialog(order))
    /\ inflight = [r \in Requests |-> Idle]
    /\ redeemed = << >>
    /\ resp = Response("none", 0, None)

\* the lines a dialog can show
DialogLines == 1 .. 2

NextDialog ==
    \/ \E i \in DialogLines, delta \in {-1, 1} : UpdateQuantity(i, delta)
    \/ \E i \in DialogLines, ex \in {None} \cup {Some(id) : id \in ProductIds} :
          SetExchangeProduct(i, ex)
    \/ OnSubmit
    \/ \E outcome \in EmailOutcomes : EmailDone(outcome)

SpecDialog == InitDialog /\ [][NextDialog]_vars

(***************************************************************************)
(* Claims about the amounts of a return made through the dialog, checked   *)
(* under SpecDialog on what the server stored.                             *)
(***************************************************************************)
\* the stored items of return r
ItemsOf(r) ==
    LET OfReturn(item) == item.returnId = r.id
    IN  SelectSeq(returnItems, OfReturn)

RECURSIVE ReturnValueOf(_)
\* sum of unitPrice * quantity over the items
ReturnValueOf(items) ==
    IF items = << >> THEN 0
    ELSE Head(items).unitPrice * Head(items).quantity + ReturnValueOf(Tail(items))

RECURSIVE ExchangeValueOf(_)
\* sum of the exchange product's price * quantity over the items that have one
ExchangeValueOf(items) ==
    IF items = << >> THEN 0
    ELSE (IF IsSome(Head(items).exchangeProductId)
            THEN Catalogue[Head(items).exchangeProductId[1]].price * Head(items).quantity
            ELSE 0)
         + ExchangeValueOf(Tail(items))

HasExchange(items) ==
    \E i \in 1 .. Len(items) : IsSome(items[i].exchangeProductId)

StoredReturns == {returns[i] : i \in 1 .. Len(returns)}

\* C1: a return none of whose items has an exchange product is stored with
\* refundAmount equal to the total return value and creditAmount equal to 0.
C1_NoExchangeRefundsAll ==
    \A r \in StoredReturns :
        ~HasExchange(ItemsOf(r)) =>
            /\ r.refundAmount = Some(ReturnValueOf(ItemsOf(r)))
            /\ r.creditAmount = Some(0)

\* C2: a return whose exchange value is positive and below its return value is
\* stored with creditAmount = return value - exchange value and refundAmount 0.
C2_PartialExchangeCreditsDifference ==
    \A r \in StoredReturns :
        LET ret == ReturnValueOf(ItemsOf(r))
            exch == ExchangeValueOf(ItemsOf(r))
        IN  (0 < exch /\ exch < ret) =>
                /\ r.creditAmount = Some(ret - exch)
                /\ r.refundAmount = Some(0)

\* a return of 3.00 exchanged for goods of 2.00 is stored with 1.00 of credit
C2_Witness ==
    \E r \in StoredReturns :
        /\ ReturnValueOf(ItemsOf(r)) = 3000
        /\ ExchangeValueOf(ItemsOf(r)) = 2000
        /\ r.creditAmount = Some(1000)

MovementBodies ==
    {Movement(productId, type, quantity, "count") :
        productId \in ProductIds, type \in MovementTypes \cup {"move"},
        quantity \in {0, 1, MaxQty}}

NextMovements ==
    \/ \E p \in NewProducts : PostProducts(p)
    \/ \E m \in MovementBodies : PostStockMovements(m)

SpecMovements == Init /\ [][NextMovements]_vars

(***************************************************************************)
(* SpecLedger: the catalogue under product updates, stock movements and    *)
(* returns, including returns of a negative quantity (the schema of a      *)
(* return item puts no lower bound on it).                                 *)
(***************************************************************************)
\* bodies of a product update: a stock of 0, and a negative one
LedgerProducts == [sku : {"SKU-A"}, price : {2000}, stockQuantity : {-1, 0}]

\* valid movement bodies, of the smallest and the largest quantity
LedgerMovements ==
    {Movement(productId, type, quantity, "count") :
        productId \in ProductIds, type \in MovementTypes, quantity \in {1, MaxQty}}

\* return bodies of one item of product 1, of quantity -1 or 1
LedgerReturns ==
    {ReturnBody(None, None, <<ReturnItem(1, quantity, 2000, None)>>) :
        quantity \in {-1, 1}}

NextLedger ==
    \/ \E p \in NewProducts : PostProducts(p)
    \/ \E id \in ProductIds, p \in LedgerProducts : PatchProducts(id, p)
    \/ \E m \in LedgerMovements : PostStockMovements(m)
    \/ \E body \in LedgerReturns : PostReturns(body)

SpecLedger == Init /\ [][NextLedger]_vars

(***************************************************************************)
(* Claims about stock movements, checked under SpecMovements, and about    *)
(* the stock of the catalogue, checked under SpecLedger.                   *)
(***************************************************************************)
\* the stock of product id, which exists
StockOf(prods, id) == prods[id].stockQuantity

\* a movement request that passes the schema, on a product that exists
Moves(m) ==
    /\ PostStockMovements(m)
    /\ MovementValid(m)
    /\ m.productId \in DOMAIN products

\* every other product is as it was
OthersKept(id) ==
    /\ DOMAIN products' = DOMAIN products
    /\ \A o \in DOMAIN products \ {id} : products'[o] = products[o]

\* C11: the stock of every product is >= 0 in every reachable state, whatever
\* products were created or updated and whatever movements and returns were
\* made, returns of a negative quantity and movements "out" beyond the stock
\* included.
C11_StockNeverNegative ==
    \A id \in DOMAIN products : StockOf(products, id) >= 0

\* a return of quantity -1 and a movement "out" were made on product 1, whose
\* stock is 0
C11_Witness ==
    /\ 1 \in DOMAIN products
    /\ StockOf(products, 1) = 0
    /\ \E i \in 1 .. Len(returnItems) :
          returnItems[i].productId = 1 /\ returnItems[i].quantity < 0
    /\ \E i \in 1 .. Len(stockMovements) :
          stockMovements[i].productId = 1 /\ stockMovements[i].type = "out"

\* C12: a movement "out" of more than the stock of its product leaves the
\* stock at exactly 0 and answers 201; the record appended to the ledger is
\* the request, with the requested quantity.
C12_OutBeyondStockClampsToZero ==
    [][\A m \in MovementBodies :
          (Moves(m) /\ m.type = "out"
                    /\ m.quantity > StockOf(products, m.productId)) =>
              /\ StockOf(products', m.productId) = 0
              /\ resp'.status = 201
              /\ stockMovements' = Append(stockMovements, m)
      ]_vars

\* the ledger holds a movement "out" of 2 on product 1, which never held more
\* than MaxStock, and the stock of product 1 is 0
C12_Witness ==
    /\ 1 \in DOMAIN products
    /\ StockOf(products, 1) = 0
    /\ resp = Response("postStockMovements", 201, Some(1))
    /\ stockMovements = <<Movement(1, "out", 2, "count")>>

\* C13: on an existing product a movement "in" leaves prior stock + quantity
\* and a movement "adjustment" leaves exactly the quantity; every other
\* product is unchanged.
C13_InAddsAdjustmentSets ==
    [][\A m \in MovementBodies :
          Moves(m) =>
              /\ m.type = "in" =>
                    StockOf(products', m.productId)
                        = StockOf(products, m.productId) + m.quantity
              /\ m.type = "adjustment" =>
                    StockOf(products', m.productId) = m.quantity
              /\ OthersKept(m.productId)
      ]_vars

\* an adjustment to 2 was made on product 1 while product 2 exists
C13_Witness ==
    /\ DOMAIN products = {1, 2}
    /\ StockOf(products, 1) = 2
    /\ resp = Response("postStockMovements", 201, Some(1))
    /\ stockMovements = <<Movement(1, "adjustment", 2, "count")>>

\* C14: a movement on a productId that names no product answers 404 and
\* appends no record.
C14_UnknownProductRejected ==
    [][\A m \in MovementBodies :
          (PostStockMovements(m) /\ MovementValid(m)
                                 /\ m.productId \notin DOMAIN products) =>
              /\ resp'.status = 404
              /\ stockMovements' = stockMovements
      ]_vars

(***************************************************************************)
(* SpecSettle: orders and the returns requested on them by any client of   *)
(* the API.                                                                *)
(***************************************************************************)
OrderItem(productId, quantity, unitPrice) ==
    [productId |-> productId, quantity |-> quantity, unitPrice |-> unitPrice,
     subtotal |-> toFixed2(quantity * unitPrice)]

OrderBody(customerName, customerEmail, status, totalAmount, items) ==
    [customerName |-> customerName, customerEmail |-> customerEmail,
     status |-> status, totalAmount |-> totalAmount, items |-> items]

\* the order of one line that the returns are about
SettleOrders ==
    {OrderBody("Ann", Some("ann@example.com"), "delivered", Some(2000),
               <<OrderItem(1, 1, 2000)>>)}

\* return bodies: on the first order or on an order that does not exist; for
\* a customer with a good or a malformed address; with no items, one item of
\* quantity 0 or one of quantity 1; claiming no credit or "3.00"
SettleBodies ==
    [orderId : {OrderId(1), "no-such-order"},
     customerEmail : {Some("ann@example.com"), Some("not-an-address")},
     refundAmount : {Some(0)},
     creditAmount : {Some(0), Some(3000)},
     items : {<< >>, <<ReturnItem(1, 0, 2000, None)>>,
              <<ReturnItem(1, 1, 2000, None)>>}]

NextSettle ==
    \/ \E body \in SettleOrders : PostOrders(body)
    \/ \E body \in SettleBodies : PostReturns(body)
    \/ EmailDone("sent")

SpecSettle == Init /\ [][NextSettle]_vars

(***************************************************************************)
(* SpecReject: returns and redemptions, the rejected ones among them.      *)
(***************************************************************************)
\* return bodies that claim "3.00" of credit: with a good or a malformed
\* address, with no items or one
RejectBodies ==
    [orderId : OrderIds,
     customerEmail : {Some("ann@example.com"), Some("not-an-address")},
     refundAmount : {Some(0)},
     creditAmount : {Some(3000)},
     items : {<< >>, <<ReturnItem(1, 1, 2000, None)>>}]

\* amountUsed of a redemption: none, "0", "1.00", "3.00", "4.00"
RejectAmounts == {None, Some(0), Some(1000), Some(3000), Some(4000)}

NextReject ==
    \/ \E body \in RejectBodies : PostReturns(body)
    \/ EmailDone("sent")
    \/ \E code \in Codes, amountUsed \in RejectAmounts : UseDiscountCode(code, amountUsed)

SpecReject == Init /\ [][NextReject]_vars

(***************************************************************************)
(* Claims about what a return request may store, checked under SpecSettle, *)
(* and about rejected requests, checked under SpecReject.                  *)
(***************************************************************************)
\* C15: a return request that passes the schema, has items and names an order
\* that does not exist answers 404 and stores no return, return item, stock
\* movement or discount code and changes no stock.
C15_UnknownOrderRejected ==
    [][\A body \in SettleBodies :
          (PostReturns(body) /\ ReturnValid(body) /\ body.items # << >>
                             /\ body.orderId \notin DOMAIN orders) =>
              /\ resp'.status = 404
              /\ UNCHANGED <<returns, returnItems, stockMovements,
                             discountCodes, products>>
      ]_vars

\* C16: a return request none of whose items has quantity > 0 answers 400 and
\* stores nothing.
C16_NoQualifyingItemsRejected ==
    [][\A body \in SettleBodies :
          (PostReturns(body) /\ ReturnValid(body)
                             /\ ItemsToReturn(body.items) = << >>) =>
              /\ resp'.status = 400
              /\ UNCHANGED store
      ]_vars

\* C18: a return request or a redemption request that is answered 400 or 404
\* leaves products, stock movements, returns, return items and discount codes
\* as they were.
C18_RejectedRequestChangesNothing ==
    [][\A body \in RejectBodies, code \in Codes, amountUsed \in RejectAmounts :
          ((PostReturns(body) \/ UseDiscountCode(code, amountUsed))
              /\ resp'.status \in {400, 404}) =>
                 UNCHANGED <<products, stockMovements, returns, returnItems,
                             discountCodes>>
      ]_vars

\* a redemption was just rejected while a return and its discount code are
\* stored
C18_Witness ==
    /\ resp.op = "useDiscountCode"
    /\ resp.status = 400
    /\ returns # << >>
    /\ DOMAIN discountCodes # {}

\* C20: every stored return holds the refund and the credit that the
\* settlement rules give for its stored items.
C20_StoredAmountsAreComputed ==
    \A r \in StoredReturns :
        LET ret == ReturnValueOf(ItemsOf(r))
            exch == ExchangeValueOf(ItemsOf(r))
        IN  /\ r.refundAmount = Some(toFixed2(RefundOf(ret, exch)))
            /\ r.creditAmount = Some(toFixed2(CreditOf(ret, exch)))

(***************************************************************************)
(* SpecOrders: orders created, updated and deleted through the API.        *)
(***************************************************************************)
\* the fields of an order body; an empty customerName is what the schema
\* rejects
OrderData ==
    [customerName : {"Ann", "Bob", ""},
     customerEmail : {Some("ann@example.com")},
     status : {"pending", "shipped"},
     totalAmount : {Some(2000), Some(5000)}]

\* bodies of POST /api/orders: the fields, and no items, one line of quantity
\* 0 or one line of quantity 1
OrderBodies ==
    {OrderBody(d.customerName, d.customerEmail, d.status, d.totalAmount, items) :
        d \in OrderData,
        items \in {<< >>, <<OrderItem(1, 0, 2000)>>, <<OrderItem(1, 1, 2000)>>}}

\* the order ids a request may name
StoredOrderIds == {OrderId(n) : n \in 1 .. MaxOrders}

NextOrders ==
    \/ \E body \in OrderBodies : PostOrders(body)
    \/ \E id \in StoredOrderIds, data \in OrderData : PatchOrders(id, data)
    \/ \E id \in StoredOrderIds : DeleteOrder(id)

SpecOrders == Init /\ [][NextOrders]_vars

\* C19: no step changes the customerName, customerEmail, totalAmount,
\* orderNumber or line items of an order that exists before and after it.
C19_OrdersImmutableButStatus ==
    [][\A id \in DOMAIN orders \cap DOMAIN orders' :
          /\ orders'[id].customerName = orders[id].customerName
          /\ orders'[id].customerEmail = orders[id].customerEmail
          /\ orders'[id].totalAmount = orders[id].totalAmount
          /\ orders'[id].orderNumber = orders[id].orderNumber
          /\ getOrderItems(orderItems', id) = getOrderItems(orderItems, id)
      ]_vars

(***************************************************************************)
(* The use-credit dialog of the client (UseCreditDialog): an order paid    *)
(* with a discount code, created first and redeemed after.                 *)
(***************************************************************************)
\* the dialog open on a discount code as the client last fetched it
OpenedCreditDialog(credit) ==
    [phase |-> "open", credit |-> Some(credit), orderItems |-> << >>,
     additionalPayment |-> 0, amountUsed |-> None, orderId |-> None,
     toast |-> "none"]

\* the dialog after the flow: closed and reset, with its last toast
ClosedCreditDialog(toast) ==
    [phase |-> "closed", credit |-> None, orderItems |-> << >>,
     additionalPayment |-> 0, amountUsed |-> None, orderId |-> None,
     toast |-> toast]

\* the store-credits page opens the dialog on one of the stored codes; the
\* model follows one use of the dialog
OpenCreditDialog(id) ==
    /\ creditDialog = None
    /\ id \in DOMAIN discountCodes
    /\ creditDialog' = Some(OpenedCreditDialog(discountCodes[id]))
    /\ UNCHANGED <<store, requestVars, now, pendingEmail, outbox, emailResult, dialog, resp>>

\* addProduct: a new line of quantity 1, or one more of a product already
\* in the order
addProduct(items, id, product) ==
    IF \E i \in 1 .. Len(items) : items[i].productId = id
      THEN [i \in 1 .. Len(items) |->
               IF items[i].productId = id
                 THEN OrderItem(id, items[i].quantity + 1, items[i].unitPrice)
                 ELSE items[i]]
      ELSE Append(items, [productId |-> id, quantity |-> 1,
                          unitPrice |-> product.price, subtotal |-> product.price])

AddProduct(id) ==
    /\ IsSome(creditDialog)
    /\ creditDialog[1].phase = "open"
    /\ id \in DOMAIN products
    /\ LET items == addProduct(creditDialog[1].orderItems, id, products[id])
       IN  /\ \A i \in 1 .. Len(items) : items[i].quantity <= MaxQty
           /\ creditDialog' = Some([creditDialog[1] EXCEPT !.orderItems = items])
    /\ UNCHANGED <<store, requestVars, now, pendingEmail, outbox, emailResult, dialog, resp>>

\* the additional-payment input
SetAdditionalPayment(amount) ==
    /\ IsSome(creditDialog)
    /\ creditDialog[1].phase = "open"
    /\ creditDialog' = Some([creditDialog[1] EXCEPT !.additionalPayment = amount])
    /\ UNCHANGED <<store, requestVars, now, pendingEmail, outbox, emailResult, dialog, resp>>

RECURSIVE SumSubtotals(_)
\* calculateTotal: the sum of parseFloat(item.subtotal), toFixed(2)
SumSubtotals(items) ==
    IF items = << >> THEN 0 ELSE Head(items).subtotal + SumSubtotals(Tail(items))

calculateTotal(items) == toFixed2(SumSubtotals(items))

calculatePaymentBreakdown(items, credit) ==
    LET orderTotal == calculateTotal(items)
        creditAmount == credit.amount
    IN  [orderTotal |-> orderTotal,
         creditAmount |-> creditAmount,
         creditUsed |-> Min(orderTotal, creditAmount),
         additionalRequired |-> Max(0, orderTotal - creditAmount)]

\* onSubmit, and the POST /api/orders of createMutation: a toast when the
\* order has no line or the payment does not cover what the credit leaves;
\* else the order is posted, with the credit to use kept for the next step
SubmitCreditOrder ==
    /\ IsSome(creditDialog)
    /\ creditDialog[1].phase = "open"
    /\ LET d == creditDialog[1]
           breakdown == calculatePaymentBreakdown(d.orderItems, d.credit[1])
           body == OrderBody("Ann", Some(d.credit[1].customerEmail), "pending",
                             Some(calculateTotal(d.orderItems)), d.orderItems)
       IN  IF d.orderItems = << >>
             THEN /\ creditDialog' = Some([d EXCEPT !.toast = "Error: no product"])
                  /\ UNCHANGED <<store, requestVars, now, pendingEmail, outbox, emailResult,
                                 dialog, resp>>
           ELSE IF d.additionalPayment < breakdown.additionalRequired
             THEN /\ creditDialog' = Some([d EXCEPT !.toast = "Insufficient Payment"])
                  /\ UNCHANGED <<store, requestVars, now, pendingEmail, outbox, emailResult,
                                 dialog, resp>>
           ELSE /\ PostOrdersHandler(body)
                /\ creditDialog' =
                     IF resp'.status = 201
                       THEN Some([d EXCEPT !.phase = "ordered",
                                           !.orderId = resp'.body,
                                           !.amountUsed = Some(toFixed2(breakdown.creditUsed))])
                       ELSE Some([d EXCEPT !.toast = "Error: order not created"])

\* apiRequest rejects when the response is not a 2xx
apiRequestThrows(status) == status < 200 \/ status > 299

\* the toast of onSuccess after the redemption request
RedeemToast(response) ==
    IF apiRequestThrows(response.status) THEN "Warning"
    ELSE IF IsSome(response.body[1].remainingCredit) THEN "Success: remaining credit"
    ELSE IF response.body[1].fullyUsed THEN "Success: fully used"
    ELSE "none"

\* a compensating version: a failed redemption takes the order back and
\* reports an error
RedeemCreditRollsBack ==
    /\ IsSome(creditDialog)
    /\ creditDialog[1].phase = "ordered"
    /\ LET d == creditDialog[1]
           result == useDiscountCode(discountCodes, d.credit[1].code, d.amountUsed)
           failed == \/ ~AmountUsedValid(d.amountUsed)
                     \/ ~result.wasFound
                     \/ result.error # ""
       IN  IF failed
             THEN /\ orders' = Without(orders, d.orderId[1])
                  /\ orderItems' = deleteOrderItems(orderItems, d.orderId[1])
                  /\ resp' = Response("useDiscountCode", 400, Some("rolled back"))
                  /\ creditDialog' = Some(ClosedCreditDialog("Error"))
                  /\ UNCHANGED <<products, productSeq, orderSeq, stockMovements,
                                 returns, returnItems, discountCodes, codeSeq,
                                 now, pendingEmail, outbox, emailResult, dialog,
                                 requestVars>>
             ELSE /\ UseDiscountCodeHandler(d.credit[1].code, d.amountUsed)
                  /\ creditDialog' = Some(ClosedCreditDialog(RedeemToast(resp')))
                  /\ UNCHANGED redeemed

\* onSuccess of createMutation: the redemption request and its toast, then
\* the dialog closes
RedeemCredit ==
    /\ IsSome(creditDialog)
    /\ creditDialog[1].phase = "ordered"
    /\ UseDiscountCodeHandler(creditDialog[1].credit[1].code, creditDialog[1].amountUsed)
    /\ creditDialog' = Some(ClosedCreditDialog(RedeemToast(resp')))
    /\ UNCHANGED redeemed

(***************************************************************************)
(* SpecCredit: discount codes issued by returns and spent through the      *)
(* use-credit dialog, while other clients redeem and delete codes.         *)
(***************************************************************************)
\* the product on sale, at "0.50"
CreditProducts == [sku : {"SKU-A"}, price : {500}, stockQuantity : {1}]

\* amountUsed of the other clients: "0.996", which leaves "0.00" of "1.00"
OtherAmounts == {Some(996)}

\* what the customer may pay on top of the credit: nothing or "4.00"
AdditionalPayments == {0, 4000}

\* the return that earns "1.00" of store credit
CreditReturns ==
    {ReturnBody(Some("ann@example.com"), Some(1000), <<ReturnItem(1, 1, 2000, None)>>)}

NextCredit ==
    \/ \E p \in CreditProducts : PostProducts(p)
    \/ \E body \in CreditReturns : PostReturns(body)
    \/ EmailDone("sent")
    \/ \E id \in Codes : OpenCreditDialog(id)
    \/ \E id \in ProductIds : AddProduct(id)
    \/ \E amount \in AdditionalPayments : SetAdditionalPayment(amount)
    \/ SubmitCreditOrder
    \/ RedeemCredit
    \/ \E code \in Codes, amountUsed \in OtherAmounts : UseDiscountCode(code, amountUsed)
    \/ \E id \in Codes : DeleteDiscountCode(id)

SpecCredit == Init /\ [][NextCredit]_vars

\* C17: when the redemption request of the use-credit flow is not answered
\* 200 (the code was deleted meanwhile, the balance went below the amount to
\* use, or the amount to use is 0), the order the flow created is still
\* stored, no order, order item or discount code has changed, and the flow
\* ends with the warning toast.
C17_FailedRedemptionKeepsOrder ==
    [][(RedeemCredit /\ resp'.status # 200) =>
          /\ orders' = orders
          /\ orderItems' = orderItems
          /\ creditDialog[1].orderId[1] \in DOMAIN orders'
          /\ discountCodes' = discountCodes
          /\ creditDialog'[1].toast = "Warning"
      ]_vars

\* the flow has ended with the warning after a redemption answered 400, with
\* its order and the discount code stored
C17_Witness ==
    /\ IsSome(creditDialog)
    /\ creditDialog[1].phase = "closed"
    /\ creditDialog[1].toast = "Warning"
    /\ resp.op = "useDiscountCode"
    /\ resp.status = 400
    /\ DOMAIN orders # {}
    /\ DOMAIN discountCodes # {}

(***************************************************************************)
(* Requests in flight together.  Every storage method is async, so a       *)
(* handler gives way at each await, and the continuations of two handlers  *)
(* that are in flight together alternate.  Here a handler is one step per  *)
(* stretch between two of its awaits: what a stretch read from the store   *)
(* is what the next stretch holds, whatever the store has become.  The     *)
(* response follows the last stretch with no storage call in between and   *)
(* is part of it.                                                          *)
(***************************************************************************)
\* a handler suspended at an await, holding `local`
InFlight(op, arg, local) ==
    [op |-> op, pc |-> "awaiting", arg |-> arg, local |-> local, status |-> 0]

\* a handler that has answered
Done(request, status) ==
    [request EXCEPT !.pc = "done", !.status = status]

\* everything but the catalogue, the requests in flight and the response
notCatalogue ==
    <<orders, orderItems, orderSeq, creditDialog, stockMovements, returns,
      returnItems, discountCodes, codeSeq, now, pendingEmail, outbox,
      emailResult, dialog, redeemed>>

\* POST /api/products, up to `await storage.getProductBySKU(...)`
BeginPostProducts(r, p) ==
    /\ inflight[r].pc = "idle"
    /\ IF ~ProductValid(p)
         THEN /\ inflight' = [inflight EXCEPT ![r] =
                    Done(InFlight("postProducts", [product |-> p], None), 400)]
              /\ resp' = Response("postProducts", 400, Some("Validation error"))
         ELSE /\ inflight' = [inflight EXCEPT ![r] =
                    InFlight("postProducts", [product |-> p],
                             getProductBySKU(products, p.sku))]
              /\ UNCHANGED resp
    /\ UNCHANGED <<products, productSeq, notCatalogue>>

\* POST /api/products, from `if (existing)` on
ResumePostProducts(r) ==
    /\ inflight[r].op = "postProducts"
    /\ inflight[r].pc = "awaiting"
    /\ LET existing == inflight[r].local
       IN  IF IsSome(existing)
             THEN /\ resp' = Response("postProducts", 400,
                                      Some("Product with this SKU already exists"))
                  /\ inflight' = [inflight EXCEPT ![r] = Done(@, 400)]
                  /\ UNCHANGED <<products, productSeq>>
             ELSE /\ productSeq < MaxProducts
                  /\ products' = ((productSeq + 1) :> inflight[r].arg.product) @@ products
                  /\ productSeq' = productSeq + 1
                  /\ resp' = Response("postProducts", 201, Some(productSeq + 1))
                  /\ inflight' = [inflight EXCEPT ![r] = Done(@, 201)]
    /\ UNCHANGED notCatalogue

\* PATCH /api/products/:id, up to `await storage.getProductBySKU(...)`
BeginPatchProducts(r, id, p) ==
    /\ inflight[r].pc = "idle"
    /\ IF ~ProductValid(p)
         THEN /\ inflight' = [inflight EXCEPT ![r] =
                    Done(InFlight("patchProducts", [id |-> id, product |-> p], None), 400)]
              /\ resp' = Response("patchProducts", 400, Some("Validation error"))
         ELSE /\ inflight' = [inflight EXCEPT ![r] =
                    InFlight("patchProducts", [id |-> id, product |-> p],
                             getProductBySKU(products, p.sku))]
              /\ UNCHANGED resp
    /\ UNCHANGED <<products, productSeq, notCatalogue>>

\* PATCH /api/products/:id, from `if (existing && existing.id !== ...)` on
ResumePatchProducts(r) ==
    /\ inflight[r].op = "patchProducts"
    /\ inflight[r].pc = "awaiting"
    /\ LET existing == inflight[r].local
           id == inflight[r].arg.id
       IN  IF IsSome(existing) /\ existing[1] # id
             THEN /\ resp' = Response("patchProducts", 400,
                                      Some("Product with this SKU already exists"))
                  /\ inflight' = [inflight EXCEPT ![r] = Done(@, 400)]
                  /\ UNCHANGED products
           ELSE IF id \notin DOMAIN products
             THEN /\ resp' = Response("patchProducts", 404, Some("Product not found"))
                  /\ inflight' = [inflight EXCEPT ![r] = Done(@, 404)]
                  /\ UNCHANGED products
           ELSE /\ products' = updateProduct(products, id, inflight[r].arg.product)
                /\ resp' = Response("patchProducts", 200, Some(id))
                /\ inflight' = [inflight EXCEPT ![r] = Done(@, 200)]
    /\ UNCHANGED <<productSeq, notCatalogue>>

(***************************************************************************)
(* SpecSkuRace: product creations and updates in flight together.          *)
(***************************************************************************)
\* product bodies: either SKU at "2.00"; a negative stock is what the schema
\* rejects
RaceProducts == [sku : Skus, price : {2000}, stockQuantity : {-1, 0}]

NextSkuRace ==
    \/ \E r \in Requests, p \in RaceProducts : BeginPostProducts(r, p)
    \/ \E r \in Requests : ResumePostProducts(r)
    \/ \E r \in Requests, id \in ProductIds, p \in RaceProducts :
          BeginPatchProducts(r, id, p)
    \/ \E r \in Requests : ResumePatchProducts(r)

SpecSkuRace == Init /\ [][NextSkuRace]_vars

\* C21: in every reachable state no two products share a SKU, whether the
\* creations and updates come one after another or are in flight together.
C21_SkuUnique ==
    \A a \in DOMAIN products, b \in DOMAIN products :
        a # b => products[a].sku # products[b].sku

(***************************************************************************)
(* SpecExpiry: discount codes redeemed before and after their expiry.      *)
(***************************************************************************)
\* time passes, by more than the life of a discount code: every code issued
\* so far is past its expiresAt
Expire ==
    /\ now <= MaxNow
    /\ now' = now + ExpiryMonths + 1
    /\ UNCHANGED <<products, productSeq, stockMovements, returns, returnItems,
                   discountCodes, codeSeq, pendingEmail, outbox, emailResult,
                   dialog, resp, orderVars, requestVars>>

NextExpiry ==
    \/ \E body \in IssueBodies : PostReturns(body)
    \/ EmailDone("sent")
    \/ \E code \in Codes, amountUsed \in AmountsUsed : UseDiscountCode(code, amountUsed)
    \/ Tick
    \/ Expire

SpecExpiry == Init /\ [][NextExpiry]_vars

\* C22: a redemption of a discount code whose expiresAt is in the past is not
\* answered 200 and changes no discount code.
C22_ExpiredCodeNotRedeemable ==
    [][\A c \in Codes, a \in AmountsUsed :
          (UseDiscountCode(c, a) /\ IsSome(Stored(c))
                                 /\ Stored(c)[1].expiresAt[1] < now) =>
              /\ resp'.status # 200
              /\ discountCodes' = discountCodes
      ]_vars

(***************************************************************************)
(* Claims about the quantities a return made through the dialog may hold,  *)
(* checked under SpecDialog.                                               *)
(***************************************************************************)
\* the quantity ordered of product p on the stored order o
OrderedQuantity(o, p) == SumQuantity(getOrderItems(orderItems, o), p)

\* C23: every stored return item has a quantity of at most the quantity that
\* was ordered of its product on the order of its return; the returns here
\* are the ones the return dialog submitted.
C23_ReturnedAtMostOrdered ==
    \A r \in StoredReturns :
        \A i \in 1 .. Len(ItemsOf(r)) :
            ItemsOf(r)[i].quantity
                <= OrderedQuantity(r.orderId, ItemsOf(r)[i].productId)

(***************************************************************************)
(* Redemptions in flight together.                                         *)
(***************************************************************************)
\* everything but the discount codes, the requests in flight and the response
notCodes ==
    <<products, productSeq, orders, orderItems, orderSeq, creditDialog,
      stockMovements, returns, returnItems, codeSeq, now, pendingEmail, outbox,
      emailResult, dialog, redeemed>>

\* POST /api/discount-codes/:code/use, up to `await this.getDiscountCode(code)`
\* in useDiscountCode
BeginUseDiscountCode(r, code, amountUsed) ==
    /\ inflight[r].pc = "idle"
    /\ LET arg == [code |-> code, amountUsed |-> amountUsed]
       IN  IF ~AmountUsedValid(amountUsed)
             THEN /\ inflight' = [inflight EXCEPT ![r] =
                        Done(InFlight("useDiscountCode", arg, None), 400)]
                  /\ resp' = Response("useDiscountCode", 400,
                                      Some("Amount used must be a positive number"))
             ELSE /\ inflight' = [inflight EXCEPT ![r] =
                        InFlight("useDiscountCode", arg,
                                 getDiscountCode(discountCodes, code))]
                  /\ UNCHANGED resp
    /\ UNCHANGED <<discountCodes, notCodes>>

\* POST /api/discount-codes/:code/use, from `if (!discountCode)` in
\* useDiscountCode to the response
ResumeUseDiscountCode(r) ==
    /\ inflight[r].op = "useDiscountCode"
    /\ inflight[r].pc = "awaiting"
    /\ LET result == useDiscountCodeResumed(discountCodes, inflight[r].local,
                                            inflight[r].arg.amountUsed)
       IN  IF ~result.wasFound
             THEN /\ resp' = Response("useDiscountCode", 404,
                                      Some("Discount code not found"))
                  /\ inflight' = [inflight EXCEPT ![r] = Done(@, 404)]
                  /\ UNCHANGED discountCodes
           ELSE IF result.error # ""
             THEN /\ resp' = Response("useDiscountCode", 400, Some(result.error))
                  /\ inflight' = [inflight EXCEPT ![r] = Done(@, 400)]
                  /\ UNCHANGED discountCodes
           ELSE /\ discountCodes' = result.codes
                /\ resp' = Response("useDiscountCode", 200,
                                    Some([remainingCredit |-> result.updated,
                                          fullyUsed |-> result.wasDeleted]))
                /\ inflight' = [inflight EXCEPT ![r] = Done(@, 200)]
    /\ UNCHANGED notCodes

(***************************************************************************)
(* SpecCreditRace: discount codes issued by returns and redeemed by        *)
(* requests that are in flight together.                                   *)
(***************************************************************************)
\* amountUsed of a redemption: no number, "1.00", "2.00"
RaceAmounts == {None, Some(1000), Some(2000)}

NextCreditRace ==
    \/ \E body \in IssueBodies : PostReturns(body)
    \/ EmailDone("sent")
    \/ \E r \in Requests, code \in Codes, amountUsed \in RaceAmounts :
          BeginUseDiscountCode(r, code, amountUsed)
    \/ \E r \in Requests : ResumeUseDiscountCode(r)

SpecCreditRace == Init /\ [][NextCreditRace]_vars

\* C24: a redemption is decided on the balance its handler read before the
\* await, whatever the store holds when it resumes: it is answered 200 exactly
\* when its amount is at most the balance read, and it then leaves the balance
\* read less its amount (in whole cents), or no code when nothing is left.  (C24_Witness: two
\* redemptions in flight together both read the balance, both are answered
\* 200, and their amounts add up to more than that balance.)
C24_RedemptionDecidesOnBalanceRead ==
    [][\A r \in Requests :
          ResumeUseDiscountCode(r) =>
             LET read == inflight[r].local
                 code == inflight[r].arg.code
                 amount == inflight[r].arg.amountUsed[1]
             IN  /\ inflight'[r].status = 200
                       <=> (IsSome(read) /\ amount <= read[1].amount)
                 /\ (IsSome(read) /\ amount < read[1].amount) =>
                       StoredAfter(code) =
                          Some([read[1] EXCEPT !.amount = toFixed2(read[1].amount - amount)])
                 /\ (IsSome(read) /\ amount = read[1].amount) =>
                       ~IsSome(StoredAfter(code))
      ]_vars

\* two redemptions of one code have read the same balance and have both been
\* answered 200, for amounts that add up to more than that balance
C24_Witness ==
    \E r1 \in Requests, r2 \in Requests :
        /\ r1 # r2
        /\ inflight[r1].op = "useDiscountCode" /\ inflight[r2].op = "useDiscountCode"
        /\ inflight[r1].pc = "done" /\ inflight[r2].pc = "done"
        /\ inflight[r1].status = 200 /\ inflight[r2].status = 200
        /\ inflight[r1].arg.code = inflight[r2].arg.code
        /\ IsSome(inflight[r1].local)
        /\ inflight[r1].local = inflight[r2].local
        /\ inflight[r1].arg.amountUsed[1] + inflight[r2].arg.amountUsed[1]
              > inflight[r1].local[1].amount

(***************************************************************************)
(* SpecRestock: returns of one or two items, of a product of the catalogue *)
(* or of an unknown one, next to stock movements requested directly.       *)
(***************************************************************************)
\* a movement "out" of product 1, requested for a stock count
RestockMovements == {Movement(1, "out", 1, "count")}

\* the items of a return: one or two lines, of product 1 or 2, of quantity 1
\* or MaxQty
RestockLines ==
    LET Lines == {ReturnItem(p, q, 2000, None) : p \in {1, 2}, q \in {1, MaxQty}}
    IN  {<<i>> : i \in Lines} \cup {<<i, j>> : i \in Lines, j \in Lines}

RestockBodies == {ReturnBody(None, None, items) : items \in RestockLines}

NextRestock ==
    \/ \E p \in CreditProducts : PostProducts(p)
    \/ \E m \in RestockMovements : PostStockMovements(m)
    \/ \E body \in RestockBodies : PostReturns(body)

SpecRestock == Init /\ [][NextRestock]_vars

\* the movements createReturn makes for the items of a return, in their order
ReturnMovements(items) ==
    [i \in 1 .. Len(items) |->
        Movement(items[i].productId, "in", items[i].quantity, "return")]

\* C25: a return that is created appends to the ledger exactly one movement
\* per item, in the order of the items, of type "in", reason "return", the
\* item's productId and the item's quantity, and nothing else; the records
\* already in the ledger stay as they are.
C25_OneMovementPerReturnItem ==
    [][\A body \in RestockBodies :
          (PostReturns(body) /\ returns' # returns) =>
              stockMovements' = stockMovements \o ReturnMovements(body.items)
      ]_vars

\* after a stock count, a return of product 1 (in the catalogue) and of
\* product 2 (unknown) has left the count and one movement "in" for each item
C25_Witness ==
    /\ Len(returns) = 1
    /\ DOMAIN products = {1}
    /\ stockMovements = <<Movement(1, "out", 1, "count"),
                          Movement(1, "in", MaxQty, "return"),
                          Movement(2, "in", 1, "return")>>

(***************************************************************************)
(* SpecAppend: the ledger under everything that may touch it: movements,   *)
(* returns, product updates and deletions, order creations and deletions.  *)
(***************************************************************************)
NextAppend ==
    \/ \E p \in CreditProducts : PostProducts(p)
    \/ \E id \in ProductIds, p \in LedgerProducts : PatchProducts(id, p)
    \/ \E id \in ProductIds : DeleteProduct(id)
    \/ \E m \in RestockMovements : PostStockMovements(m)
    \/ \E body \in LedgerReturns : PostReturns(body)
    \/ \E body \in SettleOrders : PostOrders(body)
    \/ \E id \in StoredOrderIds : DeleteOrder(id)

SpecAppend == Init /\ [][NextAppend]_vars

\* C26: no step removes or changes a record of the ledger: the ledger before
\* the step is the beginning of the ledger after it; and a movement request
\* answered 201 appends exactly its own record.
C26_LedgerAppendOnly ==
    [][/\ Len(stockMovements') >= Len(stockMovements)
       /\ SubSeq(stockMovements', 1, Len(stockMovements)) = stockMovements
       /\ \A m \in RestockMovements :
             (PostStockMovements(m) /\ resp'.status = 201) =>
                 stockMovements' = Append(stockMovements, m)
      ]_vars

\* product 1 was deleted and an order was deleted, and the ledger still holds
\* the movement requested on product 1 and the movement of a return of it
C26_Witness ==
    /\ productSeq >= 1
    /\ 1 \notin DOMAIN products
    /\ orderSeq >= 1
    /\ DOMAIN orders = {}
    /\ Len(stockMovements) = 2
    /\ stockMovements[1].productId = 1 /\ stockMovements[1].reason = "count"
    /\ stockMovements[2].productId = 1 /\ stockMovements[2].reason = "return"

\* C27: every stored return has refundAmount + creditAmount at most the value
\* of its items, and a return with refundAmount > 0 earns no discount code
\* (SpecDialog makes one return, so a discount code issued is issued for it).
C27_NeverRefundAndCredit ==
    \A r \in StoredReturns :
        /\ r.refundAmount[1] + r.creditAmount[1] <= ReturnValueOf(ItemsOf(r))
        /\ r.refundAmount[1] > 0 => codeSeq = 0

(***************************************************************************)
(* Claims about the balance of the discount codes, checked under Spec.     *)
(***************************************************************************)
\* C28: every stored discount code has an amount greater than 0, whatever
\* returns, redemptions and deletions were made.
C28_StoredCodesPositive ==
    \A id \in DOMAIN discountCodes : discountCodes[id].amount > 0

(***************************************************************************)
(* SpecTally: discount codes redeemed one request after another by a       *)
(* client that keeps the amounts of the redemptions answered 200.          *)
(***************************************************************************)
\* the amounts redeemed of a code so far
Tally(code) == IF code \in DOMAIN redeemed THEN redeemed[code] ELSE << >>

\* POST /api/discount-codes/:code/use, and the client's note of the amount
\* when the answer is 200
TalliedUse(code, amountUsed) ==
    /\ Len(Tally(code)) < MaxRedemptions
    /\ UseDiscountCodeHandler(code, amountUsed)
    /\ redeemed' = IF resp'.status = 200
                     THEN (code :> Append(Tally(code), amountUsed[1])) @@ redeemed
                     ELSE redeemed
    /\ UNCHANGED creditDialog

NextTally ==
    \/ \E body \in IssueBodies : PostReturns(body)
    \/ EmailDone("sent")
    \/ \E code \in Codes, amountUsed \in AmountsUsed : TalliedUse(code, amountUsed)

SpecTally == Init /\ [][NextTally]_vars

RECURSIVE SumAmounts(_)
SumAmounts(amounts) ==
    IF amounts = << >> THEN 0 ELSE Head(amounts) + SumAmounts(Tail(amounts))

\* the amount code c was issued with: the credit of the return that earned it
\* (here every return earns a code, so return c earned code c)
IssuedAmount(c) == returns[c].creditAmount[1]

\* C29: the amounts of the successful redemptions of a code add up to at most
\* the amount the code was issued with, and to exactly that amount once a
\* redemption has removed the code.
C29_RedeemedAtMostIssued ==
    \A c \in DOMAIN redeemed :
        /\ SumAmounts(redeemed[c]) <= IssuedAmount(c)
        /\ c \notin DOMAIN discountCodes =>
              SumAmounts(redeemed[c]) = IssuedAmount(c)

\* C30: a step that stores a new order, whoever posted it, leaves every
\* product, its stock included, and the ledger as they were.
C30_OrdersLeaveStockAlone ==
    [][(DOMAIN orders' \ DOMAIN orders # {}) =>
          UNCHANGED <<products, stockMovements>>
      ]_vars

\* an order of one unit of product 1 was just created; product 1 still has
\* the stock of 2 that its creation and a return gave it, and the ledger holds
\* the return's movement only
C30_Witness ==
    /\ resp.op = "postOrders"
    /\ resp.status = 201
    /\ \E i \in 1 .. Len(orderItems) :
          orderItems[i].productId = 1 /\ orderItems[i].quantity = 1
    /\ 1 \in DOMAIN products
    /\ products[1].stockQuantity = 2
    /\ stockMovements = <<Movement(1, "in", 1, "return")>>

=============================================================================
